---------------------------- MODULE Spec2Model ----------------------------
(***************************************************************************)
(* PowerTip utility functions (src/src/utility.js): the cached viewport    *)
(* and cursor state of the shared session object, the handlers that keep   *)
(* it up to date, and the geometry helpers that read it.                   *)
(***************************************************************************)
EXTENDS Integers, Naturals, Sequences, FiniteSets, TLC

VARIABLES
    session,    \* the shared session object (the fields utility.js uses)
    handlers,   \* number of handlers bound per event: mousemove, resize, scroll
    readyList,  \* callbacks handed to $(fn) that have not run yet
    win,        \* the browser window: scroll offsets and dimensions
    body,       \* the geometry of the body element as jQuery reports it
    last,       \* the last call or event dispatched, and how many handlers it invoked
    ret         \* the last call of a helper: its name, arguments and result

vars == <<session, handlers, readyList, win, body, last, ret>>

-----------------------------------------------------------------------------
(* Bounds of the model *)

\* window scroll offsets range over 0..MaxScroll
MaxScroll == 1
\* pageX / pageY of a pointer event range over 0..MaxPage
MaxPage == 1
\* the coordinates of a candidate tooltip box range over -1..MaxCoord
MaxCoord == 2
\* each length jQuery reports of the body element ranges over 0..MaxBodyPx
MaxBodyPx == 1
\* the width and the height of a hovered element range over 0..MaxElementSize
MaxElementSize == 1
\* countFlags is called on the negative values -MaxNegative..-1 as well
MaxNegative == 2

-----------------------------------------------------------------------------
(* JavaScript values held by the cursor fields: a number, undefined or NaN *)

Num(n) == [kind |-> "number", val |-> n]
Undefined == [kind |-> "undefined", val |-> 0]
NaN == [kind |-> "NaN", val |-> 0]

IsNumeric(v) == v.kind = "number"

\* v += d for a number d: undefined + d and NaN + d are NaN
JsAdd(v, d) == IF IsNumeric(v) THEN Num(v.val + d) ELSE NaN

\* v >= n and v <= n for a number n: false when v is undefined or NaN
JsGE(v, n) == IsNumeric(v) /\ v.val >= n
JsLE(v, n) == IsNumeric(v) /\ v.val <= n

\* typeof v === 'number' (NaN is a number to typeof)
TypeofNumber(v) == v.kind \in {"number", "NaN"}

-----------------------------------------------------------------------------
(* The environment: window, body element, events *)

ScrollOffsets == 0..MaxScroll
PageCoords == 0..MaxPage

\* the window sizes the browser may take (width, height)
WindowSizes == {<<3, 2>>, <<4, 3>>}

ZeroOffsets == [top |-> 0, bottom |-> 0, left |-> 0, right |-> 0]

\* what jQuery reports of the body element: css('position'), offset(),
\* position(), outerWidth(), outerWidth(true), outerHeight(), outerHeight(true)
StaticBody ==
    [cssPosition |-> "static", offsetTop |-> 1, offsetLeft |-> 1,
     positionTop |-> 0, positionLeft |-> 0,
     outerWidth |-> 2, outerWidthMargin |-> 4,
     outerHeight |-> 1, outerHeightMargin |-> 3]

RelativeBody ==
    [cssPosition |-> "relative", offsetTop |-> 2, offsetLeft |-> 1,
     positionTop |-> 1, positionLeft |-> 1,
     outerWidth |-> 2, outerWidthMargin |-> 2,
     outerHeight |-> 1, outerHeightMargin |-> 2]

\* the body geometries the page switches between
PageBodies == {StaticBody, RelativeBody}

\* a mousemove event: a pointer event carries numeric pageX / pageY, a
\* triggered (synthetic) one carries neither
PointerEvents == {[pageX |-> Num(x), pageY |-> Num(y)] : x \in PageCoords, y \in PageCoords}
SyntheticEvent == [pageX |-> Undefined, pageY |-> Undefined]
MouseMoveEvents == PointerEvents \cup {SyntheticEvent}

NoCall == [fn |-> "none"]

\* the record of a dispatched event: its type, its coordinates (undefined
\* unless it is a pointer event) and the number of handlers it invoked
Dispatched(type, event, n) ==
    [type |-> type, pageX |-> event.pageX, pageY |-> event.pageY, calls |-> n]
NoEvent == Dispatched("none", SyntheticEvent, 0)

-----------------------------------------------------------------------------
(* utility.js *)

isMouseEvent(event) == TypeofNumber(event.pageX)

\* a computePositionCompensation that reports the offset of a static body
computePositionCompensation_staticOffset(windowWidth, windowHeight) ==
    IF body.cssPosition \in {"absolute", "fixed", "relative"}
    THEN [top |-> body.offsetTop,
          left |-> body.offsetLeft,
          right |-> (body.outerWidthMargin - body.outerWidth
                        - (body.offsetLeft - body.positionLeft))
                    + (windowWidth - body.outerWidthMargin - body.positionLeft),
          bottom |-> (body.outerHeightMargin - body.outerHeight - body.offsetTop)
                    + (windowHeight - body.outerHeightMargin - body.positionTop)]
    ELSE [ZeroOffsets EXCEPT !.top = body.offsetTop, !.left = body.offsetLeft]

computePositionCompensation(windowWidth, windowHeight) ==
    IF body.cssPosition \in {"absolute", "fixed", "relative"}
    THEN [top |-> body.offsetTop,
          left |-> body.offsetLeft,
          right |-> (body.outerWidthMargin - body.outerWidth
                        - (body.offsetLeft - body.positionLeft))
                    + (windowWidth - body.outerWidthMargin - body.positionLeft),
          bottom |-> (body.outerHeightMargin - body.outerHeight - body.offsetTop)
                    + (windowHeight - body.outerHeightMargin - body.positionTop)]
    ELSE ZeroOffsets

getViewportDimensions(s) ==
    [s EXCEPT !.scrollLeft = win.scrollLeft,
              !.scrollTop = win.scrollTop,
              !.windowWidth = win.width,
              !.windowHeight = win.height,
              !.positionCompensation = computePositionCompensation(win.width, win.height)]

\* a trackResize that refreshes the whole viewport cache
trackResize_refreshAll(s) == getViewportDimensions(s)

\* a trackResize that keeps the compensation computed for the old dimensions
trackResize_staleCompensation(s) ==
    [s EXCEPT !.windowWidth = win.width,
              !.windowHeight = win.height]

trackResize(s) ==
    [s EXCEPT !.windowWidth = win.width,
              !.windowHeight = win.height,
              !.positionCompensation = computePositionCompensation(win.width, win.height)]

trackScroll(s) ==
    LET x == win.scrollLeft
        y == win.scrollTop
        s1 == IF x # s.scrollLeft
              THEN [s EXCEPT !.currentX = JsAdd(s.currentX, x - s.scrollLeft),
                             !.scrollLeft = x]
              ELSE s
    IN  IF y # s1.scrollTop
        THEN [s1 EXCEPT !.currentY = JsAdd(s1.currentY, y - s1.scrollTop),
                        !.scrollTop = y]
        ELSE s1

\* a trackMouse that stores viewport coordinates shifted by the cached scroll
trackMouse_addScroll(s, event) ==
    [s EXCEPT !.currentX = JsAdd(event.pageX, s.scrollLeft),
              !.currentY = JsAdd(event.pageY, s.scrollTop)]

trackMouse(s, event) ==
    [s EXCEPT !.currentX = event.pageX, !.currentY = event.pageY]

\* an initTracking that never raises the mouseTrackingActive flag
initTracking_flagNotSet ==
    IF ~session.mouseTrackingActive
    THEN /\ session' = getViewportDimensions(session)
         /\ readyList' = readyList + 1
         /\ handlers' = [handlers EXCEPT !.mousemove = 1, !.resize = 1, !.scroll = 1]
    ELSE UNCHANGED <<session, handlers, readyList>>

\* an initTracking without the mouseTrackingActive guard
initTracking_unguarded ==
    /\ session' = getViewportDimensions([session EXCEPT !.mouseTrackingActive = TRUE])
    /\ readyList' = readyList + 1
    /\ handlers' = [handlers EXCEPT !.mousemove = @ + 1,
                                    !.resize = @ + 1,
                                    !.scroll = @ + 1]

initTracking ==
    IF ~session.mouseTrackingActive
    THEN /\ session' = getViewportDimensions([session EXCEPT !.mouseTrackingActive = TRUE])
         /\ readyList' = readyList + 1
         /\ handlers' = [handlers EXCEPT !.mousemove = @ + 1,
                                         !.resize = @ + 1,
                                         !.scroll = @ + 1]
    ELSE UNCHANGED <<session, handlers, readyList>>

\* an isMouseOver whose right and bottom bounds are exclusive
isMouseOver_exclusive(element) ==
    LET elementPosition == element.offset
        elementBox == element.rect
        elementWidth == elementBox.right - elementBox.left
        elementHeight == elementBox.bottom - elementBox.top
    IN  /\ JsGE(session.currentX, elementPosition.left)
        /\ JsLE(session.currentX, elementPosition.left + elementWidth - 1)
        /\ JsGE(session.currentY, elementPosition.top)
        /\ JsLE(session.currentY, elementPosition.top + elementHeight - 1)

\* element: what offset() and getBoundingClientRect() report of it
isMouseOver(element) ==
    LET elementPosition == element.offset
        elementBox == element.rect
        elementWidth == elementBox.right - elementBox.left
        elementHeight == elementBox.bottom - elementBox.top
    IN  /\ JsGE(session.currentX, elementPosition.left)
        /\ JsLE(session.currentX, elementPosition.left + elementWidth)
        /\ JsGE(session.currentY, elementPosition.top)
        /\ JsLE(session.currentY, elementPosition.top + elementHeight)

\* the collision flags of core.js
Collision == [none |-> 0, top |-> 1, bottom |-> 2, left |-> 4, right |-> 8]

\* Math.abs
Abs(n) == IF n < 0 THEN -n ELSE n

\* a | b for non-negative integers
RECURSIVE BitOr(_, _)
BitOr(a, b) ==
    IF a = 0 THEN b
    ELSE IF b = 0 THEN a
    ELSE (IF a % 2 = 1 \/ b % 2 = 1 THEN 1 ELSE 0) + 2 * BitOr(a \div 2, b \div 2)

\* a getViewportCollisions that forgets the position compensation
getViewportCollisions_uncompensated(coords, elementWidth, elementHeight) ==
    LET viewportTop == session.scrollTop
        viewportLeft == session.scrollLeft
        viewportBottom == viewportTop + session.windowHeight
        viewportRight == viewportLeft + session.windowWidth
        c0 == Collision.none
        c1 == IF \/ coords.top < viewportTop
                 \/ Abs(coords.bottom - session.windowHeight) - elementHeight < viewportTop
              THEN BitOr(c0, Collision.top) ELSE c0
        c2 == IF \/ coords.top + elementHeight > viewportBottom
                 \/ Abs(coords.bottom - session.windowHeight) > viewportBottom
              THEN BitOr(c1, Collision.bottom) ELSE c1
        c3 == IF \/ coords.left < viewportLeft
                 \/ coords.right + elementWidth > viewportRight
              THEN BitOr(c2, Collision.left) ELSE c2
        c4 == IF \/ coords.left + elementWidth > viewportRight
                 \/ coords.right < viewportLeft
              THEN BitOr(c3, Collision.right) ELSE c3
    IN  c4

\* a getViewportCollisions whose top rule measures the bottom-anchored box
\* from its bottom edge, leaving out the element's height
getViewportCollisions_noHeight(coords, elementWidth, elementHeight) ==
    LET viewportTop == session.scrollTop - session.positionCompensation.top
        viewportLeft == session.scrollLeft - session.positionCompensation.left
        viewportBottom == viewportTop + session.windowHeight
        viewportRight == viewportLeft + session.windowWidth
        c0 == Collision.none
        c1 == IF \/ coords.top < viewportTop
                 \/ Abs(coords.bottom - session.windowHeight) < viewportTop
              THEN BitOr(c0, Collision.top) ELSE c0
        c2 == IF \/ coords.top + elementHeight > viewportBottom
                 \/ Abs(coords.bottom - session.windowHeight) > viewportBottom
              THEN BitOr(c1, Collision.bottom) ELSE c1
        c3 == IF \/ coords.left < viewportLeft
                 \/ coords.right + elementWidth > viewportRight
              THEN BitOr(c2, Collision.left) ELSE c2
        c4 == IF \/ coords.left + elementWidth > viewportRight
                 \/ coords.right < viewportLeft
              THEN BitOr(c3, Collision.right) ELSE c3
    IN  c4

\* a getViewportCollisions that assigns each flag instead of OR-ing it in
getViewportCollisions_overwrite(coords, elementWidth, elementHeight) ==
    LET viewportTop == session.scrollTop - session.positionCompensation.top
        viewportLeft == session.scrollLeft - session.positionCompensation.left
        viewportBottom == viewportTop + session.windowHeight
        viewportRight == viewportLeft + session.windowWidth
        c0 == Collision.none
        c1 == IF \/ coords.top < viewportTop
                 \/ Abs(coords.bottom - session.windowHeight) - elementHeight < viewportTop
              THEN Collision.top ELSE c0
        c2 == IF \/ coords.top + elementHeight > viewportBottom
                 \/ Abs(coords.bottom - session.windowHeight) > viewportBottom
              THEN Collision.bottom ELSE c1
        c3 == IF \/ coords.left < viewportLeft
                 \/ coords.right + elementWidth > viewportRight
              THEN Collision.left ELSE c2
        c4 == IF \/ coords.left + elementWidth > viewportRight
                 \/ coords.right < viewportLeft
              THEN Collision.right ELSE c3
    IN  c4

\* a getViewportCollisions whose top rule asks for both of its conditions
getViewportCollisions_topBoth(coords, elementWidth, elementHeight) ==
    LET viewportTop == session.scrollTop - session.positionCompensation.top
        viewportLeft == session.scrollLeft - session.positionCompensation.left
        viewportBottom == viewportTop + session.windowHeight
        viewportRight == viewportLeft + session.windowWidth
        c0 == Collision.none
        c1 == IF /\ coords.top < viewportTop
                 /\ Abs(coords.bottom - session.windowHeight) - elementHeight < viewportTop
              THEN BitOr(c0, Collision.top) ELSE c0
        c2 == IF \/ coords.top + elementHeight > viewportBottom
                 \/ Abs(coords.bottom - session.windowHeight) > viewportBottom
              THEN BitOr(c1, Collision.bottom) ELSE c1
        c3 == IF \/ coords.left < viewportLeft
                 \/ coords.right + elementWidth > viewportRight
              THEN BitOr(c2, Collision.left) ELSE c2
        c4 == IF \/ coords.left + elementWidth > viewportRight
                 \/ coords.right < viewportLeft
              THEN BitOr(c3, Collision.right) ELSE c3
    IN  c4

\* a getViewportCollisions whose right rule leaves out the right-anchored box
getViewportCollisions_noRight(coords, elementWidth, elementHeight) ==
    LET viewportTop == session.scrollTop - session.positionCompensation.top
        viewportLeft == session.scrollLeft - session.positionCompensation.left
        viewportBottom == viewportTop + session.windowHeight
        viewportRight == viewportLeft + session.windowWidth
        c0 == Collision.none
        c1 == IF \/ coords.top < viewportTop
                 \/ Abs(coords.bottom - session.windowHeight) - elementHeight < viewportTop
              THEN BitOr(c0, Collision.top) ELSE c0
        c2 == IF \/ coords.top + elementHeight > viewportBottom
                 \/ Abs(coords.bottom - session.windowHeight) > viewportBottom
              THEN BitOr(c1, Collision.bottom) ELSE c1
        c3 == IF \/ coords.left < viewportLeft
                 \/ coords.right + elementWidth > viewportRight
              THEN BitOr(c2, Collision.left) ELSE c2
        c4 == IF coords.left + elementWidth > viewportRight
              THEN BitOr(c3, Collision.right) ELSE c3
    IN  c4

\* a getViewportCollisions that extends the viewport by the wrong window dimension
getViewportCollisions_swappedDims(coords, elementWidth, elementHeight) ==
    LET viewportTop == session.scrollTop - session.positionCompensation.top
        viewportLeft == session.scrollLeft - session.positionCompensation.left
        viewportBottom == viewportTop + session.windowWidth
        viewportRight == viewportLeft + session.windowHeight
        c0 == Collision.none
        c1 == IF \/ coords.top < viewportTop
                 \/ Abs(coords.bottom - session.windowHeight) - elementHeight < viewportTop
              THEN BitOr(c0, Collision.top) ELSE c0
        c2 == IF \/ coords.top + elementHeight > viewportBottom
                 \/ Abs(coords.bottom - session.windowHeight) > viewportBottom
              THEN BitOr(c1, Collision.bottom) ELSE c1
        c3 == IF \/ coords.left < viewportLeft
                 \/ coords.right + elementWidth > viewportRight
              THEN BitOr(c2, Collision.left) ELSE c2
        c4 == IF \/ coords.left + elementWidth > viewportRight
                 \/ coords.right < viewportLeft
              THEN BitOr(c3, Collision.right) ELSE c3
    IN  c4

getViewportCollisions(coords, elementWidth, elementHeight) ==
    LET viewportTop == session.scrollTop - session.positionCompensation.top
        viewportLeft == session.scrollLeft - session.positionCompensation.left
        viewportBottom == viewportTop + session.windowHeight
        viewportRight == viewportLeft + session.windowWidth
        c0 == Collision.none
        c1 == IF \/ coords.top < viewportTop
                 \/ Abs(coords.bottom - session.windowHeight) - elementHeight < viewportTop
              THEN BitOr(c0, Collision.top) ELSE c0
        c2 == IF \/ coords.top + elementHeight > viewportBottom
                 \/ Abs(coords.bottom - session.windowHeight) > viewportBottom
              THEN BitOr(c1, Collision.bottom) ELSE c1
        c3 == IF \/ coords.left < viewportLeft
                 \/ coords.right + elementWidth > viewportRight
              THEN BitOr(c2, Collision.left) ELSE c2
        c4 == IF \/ coords.left + elementWidth > viewportRight
                 \/ coords.right < viewportLeft
              THEN BitOr(c3, Collision.right) ELSE c3
    IN  c4

\* the bitwise operators work on 32-bit two's-complement integers
Int32Bits == 32
BitIndex == 0..(Int32Bits - 1)
SignBit == Int32Bits - 1
MaxInt32 == 2147483647
MinInt32 == -MaxInt32 - 1

\* the bits of a 32-bit integer, lowest first, and the integer of such bits
ToBits(n) ==
    [i \in BitIndex |-> IF i = SignBit THEN (IF n < 0 THEN 1 ELSE 0) ELSE (n \div 2^i) % 2]

RECURSIVE SumBits(_, _)
SumBits(bits, i) == IF i < 0 THEN 0 ELSE bits[i] * 2^i + SumBits(bits, i - 1)

FromBits(bits) ==
    IF bits[SignBit] = 1
    THEN (SumBits(bits, SignBit - 1) - 2^(SignBit - 1)) - 2^(SignBit - 1)
    ELSE SumBits(bits, SignBit - 1)

\* ToInt32(n - 1) of a 32-bit integer n: the lowest set bit is cleared and
\* the bits below it are set; 0 - 1 is all ones, and MinInt32 - 1 wraps
Decrement32(bits) ==
    [i \in BitIndex |-> IF \A j \in 0..(i - 1) : bits[j] = 0 THEN 1 - bits[i] ELSE bits[i]]

\* a & b
BitAnd32(a, b) == [i \in BitIndex |-> a[i] * b[i]]

\* one pass of the loop of a countFlags written as do ... while (value)
countFlagsStep_doWhile(call) ==
    IF call.local.value # 0 \/ call.local.count = 0
    THEN [call EXCEPT !.local =
            [value |-> FromBits(BitAnd32(ToBits(@.value), Decrement32(ToBits(@.value)))),
             count |-> @.count + 1]]
    ELSE [call EXCEPT !.done = TRUE, !.value = call.local.count]

\* one pass of the loop of a countFlags written as while (value > 0)
countFlagsStep_whilePositive(call) ==
    IF call.local.value > 0
    THEN [call EXCEPT !.local =
            [value |-> FromBits(BitAnd32(ToBits(@.value), Decrement32(ToBits(@.value)))),
             count |-> @.count + 1]]
    ELSE [call EXCEPT !.done = TRUE, !.value = call.local.count]

\* one pass of the loop of countFlags (value and count are its locals), or
\* its return once value is 0
countFlagsStep(call) ==
    IF call.local.value # 0
    THEN [call EXCEPT !.local =
            [value |-> FromBits(BitAnd32(ToBits(@.value), Decrement32(ToBits(@.value)))),
             count |-> @.count + 1]]
    ELSE [call EXCEPT !.done = TRUE, !.value = call.local.count]

-----------------------------------------------------------------------------
(* jQuery's event dispatch: every bound handler runs once, in turn *)

\* the handler initTracking binds to each event type
Handler(type, event, s) ==
    IF type = "mousemove" THEN trackMouse(s, event)
    ELSE IF type = "resize" THEN trackResize(s)
    ELSE trackScroll(s)

\* n handlers bound to the event's type run on the session, one after another
RECURSIVE Dispatch(_, _, _, _)
Dispatch(n, type, event, s) ==
    IF n = 0 THEN s ELSE Dispatch(n - 1, type, event, Handler(type, event, s))

-----------------------------------------------------------------------------
(* The session object as core.js creates it *)

InitialSession ==
    [mouseTrackingActive |-> FALSE,
     currentX |-> Num(0), currentY |-> Num(0),
     scrollLeft |-> 0, scrollTop |-> 0,
     windowWidth |-> 0, windowHeight |-> 0,
     positionCompensation |-> ZeroOffsets]

Init ==
    /\ session = InitialSession
    /\ handlers = [mousemove |-> 0, resize |-> 0, scroll |-> 0]
    /\ readyList = 0
    /\ win \in {[scrollLeft |-> 0, scrollTop |-> 0, width |-> sz[1], height |-> sz[2]] :
                    sz \in WindowSizes}
    /\ body \in PageBodies
    /\ last = NoEvent
    /\ ret = NoCall

(* Operations of the program *)

CallInitTracking ==
    /\ initTracking
    /\ last' = Dispatched("initTracking", SyntheticEvent, 0)
    /\ UNCHANGED <<win, body, ret>>

\* the DOM-ready callback bound by $(getViewportDimensions)
DomReady ==
    /\ readyList > 0
    /\ session' = getViewportDimensions(session)
    /\ readyList' = readyList - 1
    /\ last' = Dispatched("ready", SyntheticEvent, 1)
    /\ UNCHANGED <<handlers, win, body, ret>>

MouseMoveEvent ==
    \E event \in MouseMoveEvents :
        /\ session' = Dispatch(handlers.mousemove, "mousemove", event, session)
        /\ last' = Dispatched("mousemove", event, handlers.mousemove)
        /\ UNCHANGED <<handlers, readyList, win, body, ret>>

ResizeEvent ==
    /\ session' = Dispatch(handlers.resize, "resize", SyntheticEvent, session)
    /\ last' = Dispatched("resize", SyntheticEvent, handlers.resize)
    /\ UNCHANGED <<handlers, readyList, win, body, ret>>

ScrollEvent ==
    /\ session' = Dispatch(handlers.scroll, "scroll", SyntheticEvent, session)
    /\ last' = Dispatched("scroll", SyntheticEvent, handlers.scroll)
    /\ UNCHANGED <<handlers, readyList, win, body, ret>>

(* Steps of the environment *)

\* the user scrolls the window
WindowScrolls ==
    \E x \in ScrollOffsets, y \in ScrollOffsets :
        /\ <<x, y>> # <<win.scrollLeft, win.scrollTop>>
        /\ win' = [win EXCEPT !.scrollLeft = x, !.scrollTop = y]
        /\ UNCHANGED <<session, handlers, readyList, body, last, ret>>

\* the user resizes the window
WindowResizes ==
    \E sz \in WindowSizes :
        /\ sz # <<win.width, win.height>>
        /\ win' = [win EXCEPT !.width = sz[1], !.height = sz[2]]
        /\ UNCHANGED <<session, handlers, readyList, body, last, ret>>

\* the page restyles its body element
BodyRestyled ==
    \E b \in PageBodies :
        /\ b # body
        /\ body' = b
        /\ UNCHANGED <<session, handlers, readyList, win, last, ret>>

Next ==
    \/ CallInitTracking
    \/ DomReady
    \/ MouseMoveEvent
    \/ ResizeEvent
    \/ ScrollEvent
    \/ WindowScrolls
    \/ WindowResizes
    \/ BodyRestyled

Spec == Init /\ [][Next]_vars

-----------------------------------------------------------------------------
(* Properties of the tracking state machine *)

\* a step that dispatches an event of the given type (or calls initTracking)
Step(type) == last'.type = type /\ <<win, body>>' = <<win, body>>

\* C1: initTracking is idempotent. Once tracking is active each of the
\* mousemove, resize and scroll handlers is bound exactly once, a further
\* initTracking call leaves the session, the handlers and the ready list
\* unchanged, and every event invokes its handler exactly once: its effect on
\* the session is that of a single run of the handler.
C1_InitTrackingIdempotent ==
    [][session.mouseTrackingActive =>
        /\ handlers = [mousemove |-> 1, resize |-> 1, scroll |-> 1]
        /\ Step("initTracking") => UNCHANGED <<session, handlers, readyList>>
        /\ Step("mousemove") =>
                /\ last'.calls = 1
                /\ session' = trackMouse(session, [pageX |-> last'.pageX, pageY |-> last'.pageY])
        /\ Step("resize") => last'.calls = 1 /\ session' = trackResize(session)
        /\ Step("scroll") => last'.calls = 1 /\ session' = trackScroll(session)
        /\ handlers' = handlers]_vars

\* the state right after a later initTracking call: the DOM-ready callback of
\* the first call has run, and the cursor still carries the scroll delta that
\* the single scroll handler added to it
C1_Witness ==
    /\ session.mouseTrackingActive
    /\ readyList = 0
    /\ last.type = "initTracking"
    /\ handlers = [mousemove |-> 1, resize |-> 1, scroll |-> 1]
    /\ session.scrollLeft = MaxScroll
    /\ session.currentX = Num(MaxScroll)

\* C2: scroll-delta propagation. When trackScroll runs, on each axis whose
\* window scroll offset differs from the cached one the cursor coordinate
\* increases by exactly the difference and the cached offset becomes the
\* window's; on an axis that did not scroll both stay as they were.
C2_ScrollDelta ==
    [][(Step("scroll") /\ last'.calls = 1) =>
        /\ session'.scrollLeft = win.scrollLeft
        /\ session'.scrollTop = win.scrollTop
        /\ IF win.scrollLeft # session.scrollLeft
           THEN /\ IsNumeric(session'.currentX)
                /\ session'.currentX.val - session.currentX.val
                        = win.scrollLeft - session.scrollLeft
           ELSE session'.currentX = session.currentX
        /\ IF win.scrollTop # session.scrollTop
           THEN /\ IsNumeric(session'.currentY)
                /\ session'.currentY.val - session.currentY.val
                        = win.scrollTop - session.scrollTop
           ELSE session'.currentY = session.currentY]_vars

\* the same for a cursor that holds numbers (no synthetic mousemove came first)
ScrollDeltaOfNumericCursor ==
    [][(Step("scroll") /\ last'.calls = 1
            /\ IsNumeric(session.currentX) /\ IsNumeric(session.currentY)) =>
        /\ session'.scrollLeft = win.scrollLeft
        /\ session'.scrollTop = win.scrollTop
        /\ session'.currentX = Num(session.currentX.val + win.scrollLeft - session.scrollLeft)
        /\ session'.currentY = Num(session.currentY.val + win.scrollTop - session.scrollTop)]_vars

\* C6: a mousemove event without numeric coordinates does not update the
\* cursor: currentX and currentY never hold a non-numeric value ...
C6_CursorStaysNumeric ==
    IsNumeric(session.currentX) /\ IsNumeric(session.currentY)

\* ... and keep their previous values
C6_SyntheticEventSkipped ==
    [][(Step("mousemove") /\ ~isMouseEvent([pageX |-> last'.pageX, pageY |-> last'.pageY])) =>
        /\ session'.currentX = session.currentX
        /\ session'.currentY = session.currentY]_vars

\* C10: trackMouse overwrites the cached cursor position. After a mousemove
\* dispatched to the handler, currentX and currentY are the event's pageX and
\* pageY, whatever the cursor and the cached scroll offsets were before.
C10_MouseMoveOverwrites ==
    (last.type = "mousemove" /\ last.calls = 1) =>
        /\ session.currentX = last.pageX
        /\ session.currentY = last.pageY

\* a mousemove at (0, MaxPage) arrived after the cached scroll offsets had moved
C10_Witness ==
    /\ last.type = "mousemove" /\ last.calls = 1
    /\ last.pageX = Num(0) /\ last.pageY = Num(MaxPage)
    /\ session.scrollLeft = MaxScroll /\ session.scrollTop = MaxScroll
    /\ session.currentX = Num(0) /\ session.currentY = Num(MaxPage)

\* C13: after initTracking, between two mousemove events every change of
\* the cached scroll offsets comes with an equal change of the cursor:
\* currentX - scrollLeft and currentY - scrollTop are kept by every step that
\* is no mousemove, the deferred getViewportDimensions included.
C13_CursorFollowsScroll ==
    [][(/\ session.mouseTrackingActive
        /\ ~Step("mousemove")
        /\ IsNumeric(session.currentX) /\ IsNumeric(session.currentY)) =>
        /\ IsNumeric(session'.currentX) /\ IsNumeric(session'.currentY)
        /\ session'.currentX.val - session'.scrollLeft = session.currentX.val - session.scrollLeft
        /\ session'.currentY.val - session'.scrollTop = session.currentY.val - session.scrollTop]_vars

\* the same of the scroll handler alone, which does apply the delta
ScrollHandlerKeepsFrame ==
    [][(/\ session.mouseTrackingActive
        /\ Step("scroll")
        /\ IsNumeric(session.currentX) /\ IsNumeric(session.currentY)) =>
        /\ session'.currentX.val - session'.scrollLeft = session.currentX.val - session.scrollLeft
        /\ session'.currentY.val - session'.scrollTop = session.currentY.val - session.scrollTop]_vars

\* the fields of the session a handler may change, the others being kept
OnlyChanges(fields) ==
    \A f \in (DOMAIN session) \ fields : session'[f] = session[f]

\* C14: each handler changes only its own part of the session: trackResize
\* windowWidth, windowHeight and positionCompensation; trackScroll scrollLeft,
\* scrollTop, currentX and currentY; trackMouse currentX and currentY. The
\* cursor is changed by no step but a mousemove or a scroll event.
C14_HandlerFrames ==
    [][/\ Step("resize") => OnlyChanges({"windowWidth", "windowHeight", "positionCompensation"})
       /\ Step("scroll") => OnlyChanges({"scrollLeft", "scrollTop", "currentX", "currentY"})
       /\ Step("mousemove") => OnlyChanges({"currentX", "currentY"})
       /\ <<session.currentX, session.currentY>>' # <<session.currentX, session.currentY>>
            => (Step("mousemove") \/ Step("scroll"))]_vars

\* a resize handled while the window is scrolled away from the cached offsets
\* and the cursor has moved: the new size is cached, the rest is kept
C14_Witness ==
    /\ last.type = "resize" /\ last.calls = 1
    /\ <<session.windowWidth, session.windowHeight>> = <<win.width, win.height>>
    /\ session.scrollLeft # win.scrollLeft
    /\ session.scrollTop # win.scrollTop
    /\ session.currentX = Num(MaxPage)

\* C15: after initTracking the cached compensation is that of the cached
\* window dimensions and of the body as it was when they were captured: a
\* step that changes windowWidth, windowHeight or positionCompensation leaves
\* positionCompensation = computePositionCompensation(windowWidth,
\* windowHeight) of the body it read and the window dimensions it cached.
C15_CompensationOfCachedDimensions ==
    [][<<session.windowWidth, session.windowHeight, session.positionCompensation>>'
            # <<session.windowWidth, session.windowHeight, session.positionCompensation>> =>
        /\ <<session'.windowWidth, session'.windowHeight>> = <<win.width, win.height>>
        /\ session'.positionCompensation =
                computePositionCompensation(session'.windowWidth, session'.windowHeight)
        /\ (Step("initTracking") \/ Step("ready") \/ Step("resize"))]_vars

\* a resize was handled under a positioned body, and the page has made the
\* body static since: the cached compensation is still that of the capture
C15_Witness ==
    /\ session.mouseTrackingActive
    /\ last.type = "resize" /\ last.calls = 1
    /\ body = StaticBody
    /\ session.positionCompensation # ZeroOffsets
    /\ <<session.windowWidth, session.windowHeight>> # <<win.width, win.height>>

\* C18: tracking begins with initTracking. Before the first call no handler
\* is bound and no event changes the session; the first call raises
\* mouseTrackingActive, and once raised the flag stays raised.
C18_TrackingBeginsWithInit ==
    [][/\ ~session.mouseTrackingActive =>
            /\ handlers = [mousemove |-> 0, resize |-> 0, scroll |-> 0]
            /\ readyList = 0
            /\ (Step("mousemove") \/ Step("resize") \/ Step("scroll")) =>
                    /\ last'.calls = 0
                    /\ session' = session
            /\ session' # session => Step("initTracking")
       /\ Step("initTracking") => session'.mouseTrackingActive
       /\ session.mouseTrackingActive => session'.mouseTrackingActive]_vars

\* events came and went before the first call, and left the session as created
C18_Witness ==
    /\ ~session.mouseTrackingActive
    /\ last.type = "mousemove" /\ last.calls = 0 /\ last.pageX = Num(MaxPage)
    /\ win.scrollLeft = MaxScroll
    /\ session = InitialSession

-----------------------------------------------------------------------------
(* getViewportCollisions, called on the viewport cached by initTracking *)

\* the candidate box and the window of the documented example
ExampleWindow == <<1000, 800>>
ExampleBox == [top |-> 10, left |-> 10, right |-> 890, bottom |-> 780]
\* the same box with the bottom distance that a 100-pixel-high box at top 10 has
ExampleBoxInside == [ExampleBox EXCEPT !.bottom = 690]
ExampleSize == <<100, 100>>

Coords == -1..MaxCoord
\* the top coordinate of the documented box that lies above the viewport
ExampleTopsAbove == {-5}
CandidateBoxes ==
    [top : Coords \cup ExampleTopsAbove, left : Coords, right : Coords, bottom : Coords]
        \cup {ExampleBox, ExampleBoxInside}

\* element sizes (width, height): empty, small, larger than the small windows
ElementSizes == ({0, 1, 5} \X {0, 1, 4}) \cup {ExampleSize}

\* the session once initTracking has cached the viewport of a window
TrackedSession == getViewportDimensions([InitialSession EXCEPT !.mouseTrackingActive = TRUE])

\* a call of a helper before it runs, and once it has returned
Call(fn, args) == [fn |-> fn, args |-> args, done |-> FALSE, value |-> 0]
Return(call, value) == [call EXCEPT !.done = TRUE, !.value = value]
Called(fn) == ret.fn = fn /\ ret.done

InitCollisions ==
    /\ win \in {[scrollLeft |-> x, scrollTop |-> y, width |-> sz[1], height |-> sz[2]] :
                    x \in ScrollOffsets, y \in ScrollOffsets,
                    sz \in WindowSizes \cup {ExampleWindow}}
    /\ body \in PageBodies
    /\ session = TrackedSession
    /\ handlers = [mousemove |-> 1, resize |-> 1, scroll |-> 1]
    /\ readyList = 0
    /\ last = NoEvent
    /\ ret \in {Call("getViewportCollisions",
                      [coords |-> coords, elementWidth |-> size[1], elementHeight |-> size[2]]) :
                    coords \in CandidateBoxes, size \in ElementSizes}

CallGetViewportCollisions ==
    /\ ret.fn = "getViewportCollisions" /\ ~ret.done
    /\ ret' = Return(ret, getViewportCollisions(ret.args.coords, ret.args.elementWidth,
                                                ret.args.elementHeight))
    /\ UNCHANGED <<session, handlers, readyList, win, body, last>>

NextCollisions == CallGetViewportCollisions

SpecCollisions == InitCollisions /\ [][NextCollisions]_vars

\* C3: getViewportCollisions returns exactly the OR of the flags whose rule
\* triggers: top (1) iff coords.top < viewportTop or
\* |coords.bottom - windowHeight| - elementHeight < viewportTop; bottom (2) iff
\* coords.top + elementHeight > viewportBottom or
\* |coords.bottom - windowHeight| > viewportBottom; left (4) iff
\* coords.left < viewportLeft or coords.right + elementWidth > viewportRight;
\* right (8) iff coords.left + elementWidth > viewportRight or
\* coords.right < viewportLeft, the viewport being the cached scroll offsets
\* less the position compensation, extended by the window dimensions.
C3_CollisionRules ==
    Called("getViewportCollisions") =>
        LET c == ret.args.coords
            w == ret.args.elementWidth
            h == ret.args.elementHeight
            vTop == session.scrollTop - session.positionCompensation.top
            vLeft == session.scrollLeft - session.positionCompensation.left
            vBottom == vTop + session.windowHeight
            vRight == vLeft + session.windowWidth
            dist == IF c.bottom >= session.windowHeight
                    THEN c.bottom - session.windowHeight
                    ELSE session.windowHeight - c.bottom
            top == c.top < vTop \/ dist - h < vTop
            bottom == c.top + h > vBottom \/ dist > vBottom
            left == c.left < vLeft \/ c.right + w > vRight
            right == c.left + w > vRight \/ c.right < vLeft
        IN  ret.value = (IF top THEN 1 ELSE 0) + (IF bottom THEN 2 ELSE 0)
                        + (IF left THEN 4 ELSE 0) + (IF right THEN 8 ELSE 0)

\* a call under a compensated, scrolled viewport that reports bottom and right only
C3_Witness ==
    /\ Called("getViewportCollisions")
    /\ session.positionCompensation.top > 0
    /\ session.scrollTop > 0
    /\ ret.value = 10

ExampleCall(box) ==
    /\ Called("getViewportCollisions")
    /\ session.scrollLeft = 0 /\ session.scrollTop = 0
    /\ session.positionCompensation = ZeroOffsets
    /\ <<session.windowWidth, session.windowHeight>> = ExampleWindow
    /\ ret.args.coords = box
    /\ <<ret.args.elementWidth, ret.args.elementHeight>> = ExampleSize

\* C4 as stated: with zero scroll and compensation and a 1000x800 window, the
\* box {top:10, left:10, right:890, bottom:780} of size 100x100 yields none.
C4_ExampleYieldsNone ==
    ExampleCall(ExampleBox) => ret.value = Collision.none

\* C4 as amended: that box yields top, since |780 - 800| - 100 = -80 lies above
\* the viewport top 0; the box whose bottom distance agrees with its top and
\* height, {top:10, left:10, right:890, bottom:690}, yields none.
C4_ExampleYieldsTop ==
    /\ ExampleCall(ExampleBox) => ret.value = Collision.top
    /\ ExampleCall(ExampleBoxInside) => ret.value = Collision.none

C4_Witness == ExampleCall(ExampleBox) /\ ret.value = Collision.top

\* the viewport of the cached session
ViewportTop == session.scrollTop - session.positionCompensation.top
ViewportLeft == session.scrollLeft - session.positionCompensation.left
ViewportBottom == ViewportTop + session.windowHeight
ViewportRight == ViewportLeft + session.windowWidth

\* the four rules, on the arguments of the last call
TopRule ==
    \/ ret.args.coords.top < ViewportTop
    \/ Abs(ret.args.coords.bottom - session.windowHeight) - ret.args.elementHeight < ViewportTop
BottomRule ==
    \/ ret.args.coords.top + ret.args.elementHeight > ViewportBottom
    \/ Abs(ret.args.coords.bottom - session.windowHeight) > ViewportBottom
LeftRule ==
    \/ ret.args.coords.left < ViewportLeft
    \/ ret.args.coords.right + ret.args.elementWidth > ViewportRight
RightRule ==
    \/ ret.args.coords.left + ret.args.elementWidth > ViewportRight
    \/ ret.args.coords.right < ViewportLeft

\* whether a flag is set in a mask
HasFlag(mask, flag) == (mask \div flag) % 2 = 1

\* C11: for a box for which the top rule and the left rule trigger and
\* neither the bottom rule nor the right rule does, the result is top | left
\* = 5, whichever of the two flags is OR-ed in first.
C11_TopAndLeft ==
    (Called("getViewportCollisions") /\ TopRule /\ LeftRule /\ ~BottomRule /\ ~RightRule) =>
        /\ ret.value = 5
        /\ ret.value = BitOr(Collision.top, Collision.left)
        /\ ret.value = BitOr(Collision.left, Collision.top)

\* a box above and left of the viewport, inside it at the bottom and the right
C11_Witness ==
    /\ Called("getViewportCollisions")
    /\ ret.args.coords.top < ViewportTop /\ ret.args.coords.left < ViewportLeft
    /\ ~BottomRule /\ ~RightRule
    /\ ret.value = 5

\* C12: a candidate whose coords.top lies above the viewport top (such as
\* top = -5 under zero scroll and compensation) has the top bit set, whatever
\* its left, right and bottom coordinates and the element's size are.
C12_TopCollision ==
    (Called("getViewportCollisions") /\ ret.args.coords.top < ViewportTop) =>
        HasFlag(ret.value, Collision.top)

\* the box with top = -5 under zero scroll and compensation, colliding at the
\* top for no other reason than its top coordinate
C12_Witness ==
    /\ Called("getViewportCollisions")
    /\ session.scrollTop = 0 /\ session.positionCompensation = ZeroOffsets
    /\ ret.args.coords.top \in ExampleTopsAbove
    /\ ~(Abs(ret.args.coords.bottom - session.windowHeight) - ret.args.elementHeight < ViewportTop)
    /\ HasFlag(ret.value, Collision.top)

\* the mask made of the four flag bits of the result, and of nothing else
SetFlagsValue ==
    (IF HasFlag(ret.value, Collision.top) THEN Collision.top ELSE 0)
    + (IF HasFlag(ret.value, Collision.bottom) THEN Collision.bottom ELSE 0)
    + (IF HasFlag(ret.value, Collision.left) THEN Collision.left ELSE 0)
    + (IF HasFlag(ret.value, Collision.right) THEN Collision.right ELSE 0)

\* C16: the result is an integer of 0..15, made of the bits top = 1,
\* bottom = 2, left = 4, right = 8 only; it is none (0) iff none of the four
\* rules triggers; several bits can be set in one result.
C16_MaskRange ==
    Called("getViewportCollisions") =>
        /\ ret.value \in 0..15
        /\ ret.value = SetFlagsValue
        /\ (ret.value = Collision.none) <=> ~(TopRule \/ BottomRule \/ LeftRule \/ RightRule)

\* all four bits set in one result: top with bottom, left with right
C16_Witness ==
    /\ Called("getViewportCollisions")
    /\ ret.value = 15
    /\ HasFlag(ret.value, Collision.top) /\ HasFlag(ret.value, Collision.bottom)
    /\ HasFlag(ret.value, Collision.left) /\ HasFlag(ret.value, Collision.right)

\* C17: an element larger than the viewport is never reported free of
\* collisions: if elementHeight > windowHeight the top bit or the bottom bit is
\* set, and if elementWidth > windowWidth the left bit or the right bit is.
C17_LargerThanViewport ==
    Called("getViewportCollisions") =>
        /\ ret.args.elementHeight > session.windowHeight =>
                HasFlag(ret.value, Collision.top) \/ HasFlag(ret.value, Collision.bottom)
        /\ ret.args.elementWidth > session.windowWidth =>
                HasFlag(ret.value, Collision.left) \/ HasFlag(ret.value, Collision.right)

\* an element higher and wider than the window, under a scrolled and
\* compensated viewport, that collides at the bottom and the right only
C17_Witness ==
    /\ Called("getViewportCollisions")
    /\ ret.args.elementHeight > session.windowHeight
    /\ ret.args.elementWidth > session.windowWidth
    /\ session.scrollTop > 0 /\ session.positionCompensation.top > 0
    /\ ret.value = 10

-----------------------------------------------------------------------------
(* computePositionCompensation, called for the body element of any page *)

BodyPx == 0..MaxBodyPx
CssPositions == {"static", "sticky", "absolute", "fixed", "relative"}
Bodies ==
    [cssPosition : CssPositions, offsetTop : BodyPx, offsetLeft : BodyPx,
     positionTop : BodyPx, positionLeft : BodyPx,
     outerWidth : BodyPx, outerWidthMargin : BodyPx,
     outerHeight : BodyPx, outerHeightMargin : BodyPx]

Positioned == body.cssPosition \in {"absolute", "fixed", "relative"}

InitCompensation ==
    /\ body \in Bodies
    /\ win \in {[scrollLeft |-> 0, scrollTop |-> 0, width |-> sz[1], height |-> sz[2]] :
                    sz \in WindowSizes \cup {ExampleWindow}}
    /\ session = InitialSession
    /\ handlers = [mousemove |-> 0, resize |-> 0, scroll |-> 0]
    /\ readyList = 0
    /\ last = NoEvent
    /\ ret = Call("computePositionCompensation",
                  [windowWidth |-> win.width, windowHeight |-> win.height])

CallComputePositionCompensation ==
    /\ ret.fn = "computePositionCompensation" /\ ~ret.done
    /\ ret' = Return(ret, computePositionCompensation(ret.args.windowWidth,
                                                      ret.args.windowHeight))
    /\ UNCHANGED <<session, handlers, readyList, win, body, last>>

NextCompensation == CallComputePositionCompensation

SpecCompensation == InitCompensation /\ [][NextCompensation]_vars

\* C5: for a positioned body the bottom offset follows the formula of the
\* right offset, with heights and vertical offsets: (outerHeight(true) -
\* outerHeight() - (offset.top - position.top)) + (windowHeight -
\* outerHeight(true) - position.top).
C5_BottomSymmetricToRight ==
    (Called("computePositionCompensation") /\ Positioned) =>
        /\ ret.value.right =
                (body.outerWidthMargin - body.outerWidth - (body.offsetLeft - body.positionLeft))
                + (ret.args.windowWidth - body.outerWidthMargin - body.positionLeft)
        /\ ret.value.bottom =
                (body.outerHeightMargin - body.outerHeight - (body.offsetTop - body.positionTop))
                + (ret.args.windowHeight - body.outerHeightMargin - body.positionTop)

\* the right offset alone does follow its formula
RightOffsetFormula ==
    (Called("computePositionCompensation") /\ Positioned) =>
        ret.value.right =
            (body.outerWidthMargin - body.outerWidth - (body.offsetLeft - body.positionLeft))
            + (ret.args.windowWidth - body.outerWidthMargin - body.positionLeft)

\* C9: computePositionCompensation returns the zero offsets whenever the
\* body's CSS position is none of absolute, fixed and relative, whatever the
\* window dimensions and the body's own offset and margins.
C9_StaticBodyZeroOffsets ==
    (Called("computePositionCompensation") /\ ~Positioned) => ret.value = ZeroOffsets

\* a static body with an offset and margins of its own, in the large window
C9_Witness ==
    /\ Called("computePositionCompensation")
    /\ body.cssPosition = "static"
    /\ body.offsetTop > 0 /\ body.offsetLeft > 0
    /\ body.outerWidthMargin > body.outerWidth
    /\ <<ret.args.windowWidth, ret.args.windowHeight>> = ExampleWindow
    /\ ret.value = ZeroOffsets

-----------------------------------------------------------------------------
(* isMouseOver, called with any cached cursor *)

\* the values the cursor fields can hold
CursorValues ==
    {Num(n) : n \in -1..(MaxPage + MaxElementSize + 1)} \cup {Undefined, NaN}

ElementSize == 0..MaxElementSize
\* the left and top edges of a bounding rectangle, in viewport coordinates
RectEdges == {0, 1}
Elements ==
    {[offset |-> [left |-> l, top |-> t],
      rect |-> [left |-> rl, right |-> rl + w, top |-> rt, bottom |-> rt + h]] :
        l \in PageCoords, t \in PageCoords, rl \in RectEdges, rt \in RectEdges,
        w \in ElementSize, h \in ElementSize}

InitHover ==
    /\ win = [scrollLeft |-> 0, scrollTop |-> 0, width |-> 3, height |-> 2]
    /\ body = StaticBody
    /\ session \in {[TrackedSession EXCEPT !.currentX = cx, !.currentY = cy] :
                        cx \in CursorValues, cy \in CursorValues}
    /\ handlers = [mousemove |-> 1, resize |-> 1, scroll |-> 1]
    /\ readyList = 0
    /\ last = NoEvent
    /\ ret \in {Call("isMouseOver", [element |-> e]) : e \in Elements}

CallIsMouseOver ==
    /\ ret.fn = "isMouseOver" /\ ~ret.done
    /\ ret' = Return(ret, isMouseOver(ret.args.element))
    /\ UNCHANGED <<session, handlers, readyList, win, body, last>>

NextHover == CallIsMouseOver

SpecHover == InitHover /\ [][NextHover]_vars

\* C7: isMouseOver returns true iff the cached cursor x lies in
\* [offset.left, offset.left + width] and the cached cursor y lies in
\* [offset.top, offset.top + height], bounds included, width and height being
\* the bounding rectangle's right - left and bottom - top; an element of zero
\* width and height is hovered exactly when the cursor is on its offset point.
C7_HoverInclusive ==
    Called("isMouseOver") =>
        LET e == ret.args.element
            width == e.rect.right - e.rect.left
            height == e.rect.bottom - e.rect.top
            x == session.currentX
            y == session.currentY
        IN  /\ ret.value =
                    /\ IsNumeric(x) /\ x.val \in e.offset.left..(e.offset.left + width)
                    /\ IsNumeric(y) /\ y.val \in e.offset.top..(e.offset.top + height)
            /\ (width = 0 /\ height = 0) =>
                    ret.value = (x = Num(e.offset.left) /\ y = Num(e.offset.top))

\* the cursor on the right edge and on the top edge of an element counts as over
C7_Witness ==
    /\ Called("isMouseOver")
    /\ ret.args.element.rect.right - ret.args.element.rect.left = MaxElementSize
    /\ session.currentX = Num(ret.args.element.offset.left + MaxElementSize)
    /\ session.currentY = Num(ret.args.element.offset.top)
    /\ ret.value = TRUE

-----------------------------------------------------------------------------
(* countFlags, run one pass of its loop at a time *)

AllFlags ==
    BitOr(BitOr(Collision.top, Collision.bottom), BitOr(Collision.left, Collision.right))

FlagValues == (-MaxNegative..AllFlags) \cup {MinInt32, MaxInt32}

InitCountFlags ==
    /\ session = InitialSession
    /\ win = [scrollLeft |-> 0, scrollTop |-> 0, width |-> 3, height |-> 2]
    /\ body = StaticBody
    /\ handlers = [mousemove |-> 0, resize |-> 0, scroll |-> 0]
    /\ readyList = 0
    /\ last = NoEvent
    /\ ret \in {[fn |-> "countFlags", args |-> [value |-> v], done |-> FALSE, value |-> 0,
                  local |-> [value |-> v, count |-> 0]] : v \in FlagValues}

CountFlagsStep ==
    /\ ret.fn = "countFlags" /\ ~ret.done
    /\ ret' = countFlagsStep(ret)
    /\ UNCHANGED <<session, handlers, readyList, win, body, last>>

NextCountFlags == CountFlagsStep

SpecCountFlags == InitCountFlags /\ [][NextCountFlags]_vars

\* the number of set bits among the four flag bits of a mask
SetFlags(mask) ==
    Cardinality({f \in {Collision.top, Collision.bottom, Collision.left, Collision.right} :
                    (mask \div f) % 2 = 1})

\* C8: countFlags(v) is the number of set bits of v for every v in 0..15
\* (countFlags(0) = 0, countFlags(5) = 2, countFlags(15) = 4), so that
\* countFlags of a collision mask lies between 0 and 4.
C8_CountFlagsOfMask ==
    (Called("countFlags") /\ ret.args.value \in 0..AllFlags) =>
        /\ ret.value = SetFlags(ret.args.value)
        /\ ret.value \in 0..4
        /\ ret.args.value = 0 => ret.value = 0
        /\ ret.args.value = 5 => ret.value = 2
        /\ ret.args.value = 15 => ret.value = 4

C8_Witness ==
    Called("countFlags") /\ ret.args.value = 5 /\ ret.value = 2

\* the loop runs on: a pass that has begun is followed by the next, up to the return
SpecCountFlagsFair == SpecCountFlags /\ WF_vars(CountFlagsStep)

\* the set bits of a 32-bit integer, and the lowest of them
SetBits32(n) == {i \in BitIndex : ToBits(n)[i] = 1}
LowestSetBit(n) == CHOOSE i \in SetBits32(n) : \A j \in SetBits32(n) : i <= j

\* the passes made so far and the bits still set add up to the bits of the input
CountFlagsLoopInvariant ==
    ret.fn = "countFlags" =>
        /\ ret.local.value \in MinInt32..MaxInt32
        /\ ret.local.count + Cardinality(SetBits32(ret.local.value))
                = Cardinality(SetBits32(ret.args.value))
        /\ ret.local.count <= Int32Bits
        /\ ret.done => /\ ret.local.value = 0
                       /\ ret.value = ret.local.count
                       /\ ret.value = Cardinality(SetBits32(ret.args.value))

\* a pass of the loop clears the lowest set bit and no other
CountFlagsPassClearsLowestBit ==
    (~ret.done /\ ret.local.value # 0) =>
        /\ SetBits32(ret'.local.value)
                = SetBits32(ret.local.value) \ {LowestSetBit(ret.local.value)}
        /\ ret'.local.count = ret.local.count + 1
        /\ ~ret'.done

\* C19: countFlags terminates for every 32-bit integer, negative ones
\* included: each pass of the loop clears exactly the lowest set bit of value
\* under 32-bit wrap-around, so the loop makes as many passes as the input
\* has set bits, at most 32, and returns that number.
C19_CountFlagsTerminates ==
    /\ []CountFlagsLoopInvariant
    /\ [][CountFlagsPassClearsLowestBit]_vars
    /\ <>(Called("countFlags"))

\* all 32 bits of -1 were cleared in 32 passes
C19_Witness ==
    /\ Called("countFlags")
    /\ ret.args.value = -1
    /\ ret.local.count = Int32Bits
    /\ ret.value = Int32Bits

=============================================================================
